---- MODULE Spec2Model ----
(***************************************************************************)
(* The ChatList sidebar component (src/src/components/ChatList.tsx).       *)
(*                                                                         *)
(* Spec       : the component as a state machine.  Its state is the local  *)
(*              list `chats`, the props handed down by the parent, the     *)
(*              calls to databaseService that are still in flight, and     *)
(*              `events`, the calls and callbacks the last step made, in   *)
(*              the order it made them.  The parent may render the         *)
(*              component again with any selectedChat or refreshTrigger at *)
(*              any time; the user starts one delete at a time.            *)
(* SpecRender : the pure helpers the render uses (truncateText,            *)
(*              getChatDisplayName, getLastMessage, formatTime), applied   *)
(*              to inputs drawn by the initial state.                      *)
(***************************************************************************)
EXTENDS Integers, Sequences, FiniteSets, Bags, TLC

VARIABLES
    chats,            \* useState<Conversation[]>([])                  (line 21)
    selectedChat,     \* prop: Conversation | null                     (line 16)
    refreshTrigger,   \* prop: number | undefined                      (line 18)
    onChatDelete,     \* prop: TRUE iff the optional callback is given (line 19)
    mounted,          \* FALSE until the mount effects have run
    db,               \* what databaseService stores
    loads,            \* bag of getConversations calls in flight
    deleting,         \* the deleteConversation call in flight, if any
    events,           \* what the last step called, in call order
    input,            \* SpecRender: the arguments of a helper call
    output            \* SpecRender: what the helper returned

vars == <<chats, selectedChat, refreshTrigger, onChatDelete, mounted, db,
          loads, deleting, events, input, output>>

-----------------------------------------------------------------------------
(* Bounds.                                                                 *)

NumChats == 2       \* conversations the store holds at the start
MaxLoads == 1       \* a refresh starts no load while this many are in flight

-----------------------------------------------------------------------------
(* Values.                                                                 *)

Null == [kind |-> "null"]
Undefined == [kind |-> "undefined"]
Number(n) == [kind |-> "number", n |-> n]

Range(s) == {s[i] : i \in 1..Len(s)}

\* A Conversation as this component reads it: id, name, pdfIds, messages.
Conversation(id, name, pdfIds, messages) ==
    [id |-> id, name |-> name, pdfIds |-> pdfIds, messages |-> messages]

\* The conversation the store holds under the n-th id.
StoredConversation(n) ==
    Conversation("chat-" \o ToString(n), "Conversation " \o ToString(n), <<>>, <<>>)

StoredConversations == {StoredConversation(n) : n \in 1..NumChats}

\* What uuidv4() may return.
Uuids == {"uuid-1"}

\* The values the parent may pass as refreshTrigger.
TriggerValues == {Undefined, Number(0), Number(1)}

\* JavaScript truthiness of a refreshTrigger value: `if (refreshTrigger)`.
Truthy(v) == v.kind = "number" /\ v.n # 0

\* One entry of `events`: the call made and its argument (or its result).
Ev(op, arg) == [op |-> op, arg |-> arg]
IdArg(id) == [id |-> id]
Answer(b) == [answer |-> b]
NoArg == [kind |-> "none"]

Ids(convs) == {convs[i].id : i \in 1..Len(convs)}
Count(evs, op) == Cardinality({i \in 1..Len(evs) : evs[i].op = op})

\* One copy of x added to, or taken from, a bag.
BagAdd(b, x) == b (+) SetToBag({x})
BagRemove(b, x) == b (-) SetToBag({x})

-----------------------------------------------------------------------------
(* The render inputs are idle while the state machine runs.                *)

NoInput == [fn |-> "none"]
NoOutput == "<none>"

-----------------------------------------------------------------------------
(* handleNewChat, lines 44-55.                                             *)

\* Mutant of NewChat: the record keeps no name.
NewChatUnnamed(uuid) == Conversation(uuid, "", <<>>, <<>>)

\* The record handleNewChat builds around the id uuidv4() returned.
NewChat(uuid) == Conversation(uuid, "New Chat", <<>>, <<>>)

handleNewChat(uuid) ==
    <<Ev("uuidv4", IdArg(uuid)), Ev("onChatSelect", NewChat(uuid))>>

-----------------------------------------------------------------------------
(* loadChats and the two effects, lines 24-42.                             *)

\* A getConversations call in flight: the service has not read the store yet,
\* or it has and `snapshot` is what it will return.
LoadCalled == [state |-> "called", snapshot |-> <<>>]
LoadRead(snapshot) == [state |-> "read", snapshot |-> snapshot]

\* loadChats up to its await: the call to the service.
loadChatsCall == <<Ev("getConversations", NoArg)>>

\* The first effect: runs once, after the first render.
MountEffect == loadChatsCall

\* Mutant of RefreshEffect: the guard is missing.
RefreshEffectUnguarded(trigger) == loadChatsCall

\* The second effect's body: `if (refreshTrigger) loadChats()`.
RefreshEffect(trigger) == IF Truthy(trigger) THEN loadChatsCall ELSE <<>>

\* The second effect runs again after every render in which refreshTrigger
\* differs from the previous render's.
RefreshEffectOnRender(old, new) == IF new # old THEN RefreshEffect(new) ELSE <<>>

\* setChats(loadedChats)
setChatsLoaded(prev, loadedChats) == loadedChats

\* loadChats after its await resolved.
loadChatsResolved ==
    <<Ev("getConversations.resolved", NoArg), Ev("setChats", NoArg)>>

\* loadChats after its await rejected: the catch block.
loadChatsRejected ==
    <<Ev("getConversations.rejected", NoArg), Ev("console.error", NoArg)>>

\* The loads in flight after n more calls.
RECURSIVE WithCalls(_, _)
WithCalls(bag, n) ==
    IF n = 0 THEN bag ELSE WithCalls(BagAdd(bag, LoadCalled), n - 1)

-----------------------------------------------------------------------------
(* handleDeleteChat, lines 57-78, and the item's onClick, lines 157-160.   *)

\* onClick of a chat item.
ItemClick(chat) == <<Ev("onChatSelect", chat)>>

\* e.stopPropagation(): the click on the delete button does not bubble to
\* the item's onClick.
StopsPropagation == TRUE

\* Mutant of Confirmed: the answer is ignored.
ConfirmedAnyway(answer) == TRUE

\* if (window.confirm(...))
Confirmed(answer) == answer

\* The handler up to its await, then the click bubbling on.
handleDeleteChatCall(chat, answer) ==
    <<Ev("stopPropagation", NoArg), Ev("confirm", Answer(answer))>>
    \o (IF Confirmed(answer)
        THEN <<Ev("deleteConversation", IdArg(chat.id))>>
        ELSE <<>>)
    \o (IF StopsPropagation THEN <<>> ELSE ItemClick(chat))

\* What the handler's closure holds while it awaits: chatId and the
\* selectedChat of the render the click happened in.
NoDelete == [kind |-> "none"]
PendingDelete(chatId, sel) == [chatId |-> chatId, selectedChat |-> sel]

\* Mutant of filterChats: === for !==.
filterChatsInverted(prev, chatId) == SelectSeq(prev, LAMBDA chat : chat.id = chatId)

\* prev.filter(chat => chat.id !== chatId)
filterChats(prev, chatId) == SelectSeq(prev, LAMBDA chat : chat.id # chatId)

\* selectedChat?.id === chatId
IsSelected(sel, chatId) == sel # Null /\ sel.id = chatId

\* The handler after its await resolved.
handleDeleteChatResolved(chatId, sel, hasCallback) ==
    <<Ev("deleteConversation.resolved", IdArg(chatId)), Ev("setChats", NoArg)>>
    \o (IF hasCallback THEN <<Ev("onChatDelete", IdArg(chatId))>> ELSE <<>>)
    \o (IF IsSelected(sel, chatId) THEN <<Ev("onChatSelect", Null)>> ELSE <<>>)

\* Mutant of handleDeleteChatRejected: the parent is notified all the same.
handleDeleteChatRejectedNotifying(chatId) ==
    <<Ev("deleteConversation.rejected", IdArg(chatId)),
      Ev("onChatDelete", IdArg(chatId)),
      Ev("console.error", NoArg), Ev("alert", NoArg)>>

\* The handler after its await rejected: the catch block.
handleDeleteChatRejected(chatId) ==
    <<Ev("deleteConversation.rejected", IdArg(chatId)),
      Ev("console.error", NoArg), Ev("alert", NoArg)>>

-----------------------------------------------------------------------------
(* The collaborators: the parent and databaseService.                      *)

\* What the parent may pass as selectedChat: no chat, the first stored
\* conversation or the last one.
Selectable == {Null, StoredConversation(1), StoredConversation(NumChats)}

\* The store at the start: NumChats conversations.
InitialStore == [i \in 1..NumChats |-> StoredConversation(i)]

\* The store after deleteConversation(chatId) succeeded.
StoreWithout(store, chatId) == SelectSeq(store, LAMBDA c : c.id # chatId)

-----------------------------------------------------------------------------
(* The state machine.                                                      *)

RenderIdle == input = NoInput /\ output = NoOutput

Init ==
    /\ chats = <<>>
    /\ selectedChat \in Selectable
    /\ refreshTrigger \in TriggerValues
    /\ onChatDelete \in BOOLEAN
    /\ mounted = FALSE
    /\ db = InitialStore
    /\ loads = EmptyBag
    /\ deleting = NoDelete
    /\ events = <<>>
    /\ RenderIdle

\* The first render is committed and both effects run.
Mount ==
    /\ ~mounted
    /\ mounted' = TRUE
    /\ events' = MountEffect \o RefreshEffect(refreshTrigger)
    /\ loads' = WithCalls(loads, Count(events', "getConversations"))
    /\ UNCHANGED <<chats, selectedChat, refreshTrigger, onChatDelete, db,
                   deleting, input, output>>

\* The parent renders the component again with another selectedChat or
\* another refreshTrigger.
ParentRender(sel, trigger) ==
    /\ mounted
    /\ (sel = selectedChat) # (trigger = refreshTrigger)
    /\ selectedChat' = sel
    /\ events' = RefreshEffectOnRender(refreshTrigger, trigger)
    /\ events' # <<>> => BagCardinality(loads) < MaxLoads
    /\ loads' = WithCalls(loads, Count(events', "getConversations"))
    /\ refreshTrigger' = trigger
    /\ UNCHANGED <<chats, onChatDelete, mounted, db, deleting,
                   input, output>>

\* databaseService reads the store for a call in flight.
ServeGetConversations ==
    /\ BagIn(LoadCalled, loads)
    /\ loads' = BagAdd(BagRemove(loads, LoadCalled), LoadRead(db))
    /\ events' = <<>>
    /\ UNCHANGED <<chats, selectedChat, refreshTrigger, onChatDelete, mounted,
                   db, deleting, input, output>>

\* A getConversations promise resolves and loadChats continues.
LoadResolve(load) ==
    /\ BagIn(load, loads)
    /\ load.state = "read"
    /\ loads' = BagRemove(loads, load)
    /\ chats' = setChatsLoaded(chats, load.snapshot)
    /\ events' = loadChatsResolved
    /\ UNCHANGED <<selectedChat, refreshTrigger, onChatDelete, mounted, db,
                   deleting, input, output>>

\* A getConversations promise rejects and loadChats continues in its catch.
LoadReject(load) ==
    /\ BagIn(load, loads)
    /\ loads' = BagRemove(loads, load)
    /\ events' = loadChatsRejected
    /\ UNCHANGED <<chats, selectedChat, refreshTrigger, onChatDelete, mounted,
                   db, deleting, input, output>>

\* The user clicks the + button.
NewChatClick(uuid) ==
    /\ mounted
    /\ events' = handleNewChat(uuid)
    /\ UNCHANGED <<chats, selectedChat, refreshTrigger, onChatDelete, mounted, db, loads,
                   deleting, input, output>>

\* The user clicks a chat item.
ChatClick(chat) ==
    /\ mounted
    /\ chat \in Range(chats)
    /\ events' = ItemClick(chat)
    /\ UNCHANGED <<chats, selectedChat, refreshTrigger, onChatDelete, mounted, db, loads,
                   deleting, input, output>>

\* The user clicks a chat's delete button and answers the dialog.
DeleteClick(chat, answer) ==
    /\ mounted
    /\ chat \in Range(chats)
    /\ deleting = NoDelete
    /\ events' = handleDeleteChatCall(chat, answer)
    /\ deleting' = IF Count(events', "deleteConversation") > 0
                   THEN PendingDelete(chat.id, selectedChat)
                   ELSE NoDelete
    /\ UNCHANGED <<chats, selectedChat, refreshTrigger, onChatDelete, mounted, db, loads,
                   input, output>>

\* The deleteConversation promise resolves, the conversation gone from the
\* store, and handleDeleteChat continues.
DeleteResolve ==
    /\ deleting # NoDelete
    /\ db' = StoreWithout(db, deleting.chatId)
    /\ deleting' = NoDelete
    /\ chats' = filterChats(chats, deleting.chatId)
    /\ events' = handleDeleteChatResolved(deleting.chatId,
                                          deleting.selectedChat, onChatDelete)
    /\ UNCHANGED <<selectedChat, refreshTrigger, onChatDelete, mounted, loads, input, output>>

\* The deleteConversation promise rejects, the store as it was, and
\* handleDeleteChat continues in its catch.
DeleteReject ==
    /\ deleting # NoDelete
    /\ deleting' = NoDelete
    /\ events' = handleDeleteChatRejected(deleting.chatId)
    /\ UNCHANGED <<chats, selectedChat, refreshTrigger, onChatDelete, mounted,
                   db, loads, input, output>>

Next ==
    \/ Mount
    \/ \E sel \in Selectable, trigger \in TriggerValues : ParentRender(sel, trigger)
    \/ ServeGetConversations
    \/ \E load \in BagToSet(loads) : LoadResolve(load)
    \/ \E load \in BagToSet(loads) : LoadReject(load)
    \/ \E uuid \in Uuids : NewChatClick(uuid)
    \/ \E chat \in Range(chats) : ChatClick(chat)
    \/ \E chat \in Range(chats), answer \in BOOLEAN : DeleteClick(chat, answer)
    \/ DeleteResolve
    \/ DeleteReject

Spec == Init /\ [][Next]_vars

-----------------------------------------------------------------------------
(* The render helpers, lines 80-131.                                       *)

\* String.prototype.substring(start, end): both indices are clamped to
\* 0..length and swapped when start > end.
Clamp(n, len) == IF n < 0 THEN 0 ELSE IF n > len THEN len ELSE n

substring(text, start, end) ==
    LET a == Clamp(start, Len(text))
        b == Clamp(end, Len(text))
        lo == IF a <= b THEN a ELSE b
        hi == IF a <= b THEN b ELSE a
    IN  IF lo = hi THEN "" ELSE SubSeq(text, lo + 1, hi)

\* Mutant of truncateText: the room for the dots is not taken off.
truncateTextNoRoom(text, maxLength) ==
    IF Len(text) <= maxLength THEN text
    ELSE substring(text, 0, maxLength) \o "..."

truncateText(text, maxLength) ==
    IF Len(text) <= maxLength THEN text
    ELSE substring(text, 0, maxLength - 3) \o "..."

\* A PDFDocument as this component reads it.
PDFDocument(id, name) == [id |-> id, name |-> name]

\* availablePDFs.find(pdf => pdf.id === pdfId)?.name, as a sequence: the
\* name of the first match, or nothing when find returns undefined.
RECURSIVE findName(_, _)
findName(availablePDFs, pdfId) ==
    IF availablePDFs = <<>> THEN <<>>
    ELSE IF Head(availablePDFs).id = pdfId THEN <<Head(availablePDFs).name>>
    ELSE findName(Tail(availablePDFs), pdfId)

\* Boolean(x) of a name or undefined: undefined and '' are falsy.
BooleanOfName(found) == found # <<>> /\ found[1] # ""

\* array.slice(0, end)
slice(seq, end) == SubSeq(seq, 1, IF Len(seq) < end THEN Len(seq) ELSE end)

\* chat.pdfIds.map(...).filter(Boolean).slice(0, 2)
existingPdfNames(chat, availablePDFs) ==
    LET mapped == [i \in 1..Len(chat.pdfIds) |->
                      findName(availablePDFs, chat.pdfIds[i])]
        filtered == SelectSeq(mapped, BooleanOfName)
        sliced == slice(filtered, 2)
    IN  [i \in 1..Len(sliced) |-> sliced[i][1]]

\* chat.pdfIds.filter(pdfId => availablePDFs.some(pdf => pdf.id === pdfId)).length
totalExistingPdfs(chat, availablePDFs) ==
    Len(SelectSeq(chat.pdfIds, LAMBDA pdfId : pdfId \in Ids(availablePDFs)))

\* Mutant of additionalCount: >= for >.
additionalCountFromTwo(total) ==
    IF total >= 2 THEN " +" \o ToString(total - 2) ELSE ""

\* totalExistingPdfs > 2 ? ` +${totalExistingPdfs - 2}` : ''
additionalCount(total) ==
    IF total > 2 THEN " +" \o ToString(total - 2) ELSE ""

getChatDisplayName(chat, availablePDFs) ==
    IF chat.name # "New Chat" THEN truncateText(chat.name, 30)
    ELSE LET names == existingPdfNames(chat, availablePDFs)
         IN  IF Len(names) = 0 THEN "New Chat"
             ELSE IF Len(names) = 1 THEN truncateText(names[1], 30)
             ELSE truncateText(names[1], 15) \o " + "
                  \o truncateText(names[2], 15)
                  \o additionalCount(totalExistingPdfs(chat, availablePDFs))

getLastMessage(chat) ==
    IF Len(chat.messages) = 0 THEN "No messages yet"
    ELSE truncateText(chat.messages[Len(chat.messages)].content, 30)

\* date.toLocaleDateString(): left to the locale; here a text that names
\* the date.
toLocaleDateString(date) == "date " \o ToString(date)

\* Mutant of formatTime: <= 60 for < 60.
formatTimeSixtyMinutes(now, date) ==
    LET diff == now - date
        minutes == diff \div 60000
        hours == diff \div 3600000
        days == diff \div 86400000
    IN  IF minutes < 1 THEN "Just now"
        ELSE IF minutes <= 60 THEN ToString(minutes) \o "m ago"
        ELSE IF hours < 24 THEN ToString(hours) \o "h ago"
        ELSE IF days < 7 THEN ToString(days) \o "d ago"
        ELSE toLocaleDateString(date)

\* now and date are the getTime() of `new Date()` and of the argument;
\* \div rounds down, as Math.floor does.
formatTime(now, date) ==
    LET diff == now - date
        minutes == diff \div 60000
        hours == diff \div 3600000
        days == diff \div 86400000
    IN  IF minutes < 1 THEN "Just now"
        ELSE IF minutes < 60 THEN ToString(minutes) \o "m ago"
        ELSE IF hours < 24 THEN ToString(hours) \o "h ago"
        ELSE IF days < 7 THEN ToString(days) \o "d ago"
        ELSE toLocaleDateString(date)

-----------------------------------------------------------------------------
(* SpecRender: the helpers applied to the inputs the initial state draws.  *)

MaxTextLength == 34   \* longest text handed to truncateText
NumPdfs == 3          \* documents a chat may link to
MaxPdfIds == 3        \* longest chat.pdfIds
MaxMessages == 2      \* longest chat.messages

Alphabet == "abcdefghijklmnopqrstuvwxyzABCDEFGHIJKLMNOPQRSTUVWXYZ0123456789"

\* The text of n characters that starts at the k-th letter; no character
\* occurs twice in it.
Text(k, n) == IF n = 0 THEN "" ELSE SubSeq(Alphabet, k, k + n - 1)

SeqsUpTo(S, n) == UNION {[1..k -> S] : k \in 0..n}

PdfId(k) == "pdf-" \o ToString(k)

\* The lengths of a document's name, around the 15 and the 30 of
\* getChatDisplayName; -1 stands for a document that is not available.
NameLengths == {-1, 0, 15, 16, 31}

\* availablePDFs: the documents k with a name length chosen, in id order.
AvailablePDFs(choice) ==
    LET all == [k \in 1..NumPdfs |-> PDFDocument(PdfId(k), Text(k, IF choice[k] < 0 THEN 0 ELSE choice[k]))]
        RECURSIVE pick(_)
        pick(k) == IF k > NumPdfs THEN <<>>
                   ELSE (IF choice[k] < 0 THEN <<>> ELSE <<all[k]>>) \o pick(k + 1)
    IN  pick(1)

ChatNames == {"New Chat", "", "new chat", Text(1, 30), Text(1, 31)}

\* The arguments the initial state may hold, helper by helper.
TruncateInput ==
    \E n \in 0..MaxTextLength, m \in 0..MaxTextLength :
        input = [fn |-> "truncateText", text |-> Text(1, n), maxLength |-> m]

TitleInput ==
    \/ \E pdfIds \in SeqsUpTo({PdfId(k) : k \in 1..NumPdfs}, MaxPdfIds),
          choice \in [1..NumPdfs -> NameLengths] :
          input = [fn |-> "getChatDisplayName",
                   chat |-> Conversation("chat-1", "New Chat", pdfIds, <<>>),
                   availablePDFs |-> AvailablePDFs(choice)]
    \/ \E name \in ChatNames \ {"New Chat"},
          pdfIds \in {<<>>, <<PdfId(1)>>, <<PdfId(1), PdfId(2)>>} :
          input = [fn |-> "getChatDisplayName",
                   chat |-> Conversation("chat-1", name, pdfIds, <<>>),
                   availablePDFs |-> AvailablePDFs([k \in 1..NumPdfs |-> 15])]

PreviewInput ==
    \E lens \in SeqsUpTo(0..MaxTextLength, MaxMessages) :
        input = [fn |-> "getLastMessage",
                 chat |-> Conversation("chat-1", "New Chat", <<>>,
                            [i \in 1..Len(lens) |-> [content |-> Text(i, lens[i])]])]

\* new Date().getTime() when formatTime runs.
Now == 1000 * 1000 * 1000

\* now - date: around every multiple of a minute, an hour and a day up to
\* 61 minutes, 25 hours and 8 days, and dates in the future.
TimeDiffs ==
    {m * 60000 + r : m \in 0..61, r \in {-1, 0, 1}}
    \cup {h * 3600000 + r : h \in 0..25, r \in {-1, 0, 1}}
    \cup {d * 86400000 + r : d \in 0..8, r \in {-1, 0, 1}}
    \cup {-60000, -3600000, -86400000, -604800000}

TimeInput ==
    \E d \in TimeDiffs :
        input = [fn |-> "formatTime", now |-> Now, date |-> Now - d]

InitRender ==
    /\ chats = <<>>
    /\ selectedChat = Null
    /\ refreshTrigger = Undefined
    /\ onChatDelete = FALSE
    /\ mounted = FALSE
    /\ db = InitialStore
    /\ loads = EmptyBag
    /\ deleting = NoDelete
    /\ events = <<>>
    /\ (TruncateInput \/ TitleInput \/ PreviewInput \/ TimeInput)
    /\ output = NoOutput

Returns(value) ==
    /\ output = NoOutput
    /\ output' = value
    /\ UNCHANGED <<chats, selectedChat, refreshTrigger, onChatDelete, mounted,
                   db, loads, deleting, events, input>>

ApplyTruncateText ==
    /\ input.fn = "truncateText"
    /\ Returns(truncateText(input.text, input.maxLength))

ApplyGetChatDisplayName ==
    /\ input.fn = "getChatDisplayName"
    /\ Returns(getChatDisplayName(input.chat, input.availablePDFs))

ApplyGetLastMessage ==
    /\ input.fn = "getLastMessage"
    /\ Returns(getLastMessage(input.chat))

ApplyFormatTime ==
    /\ input.fn = "formatTime"
    /\ Returns(formatTime(input.now, input.date))

NextRender ==
    \/ ApplyTruncateText
    \/ ApplyGetChatDisplayName
    \/ ApplyGetLastMessage
    \/ ApplyFormatTime

SpecRender == InitRender /\ [][NextRender]_vars

-----------------------------------------------------------------------------
(* What the claims speak of.                                               *)

Has(evs, op) == \E i \in 1..Len(evs) : evs[i].op = op
HasEvent(evs, e) == \E i \in 1..Len(evs) : evs[i] = e
StartsWith(evs, op) == Len(evs) > 0 /\ evs[1].op = op

StoredIds == Ids(InitialStore)

\* new is old without its entries of id c, the others in their old order.
KeepsOthersInOrder(c, old, new) ==
    LET kept == {i \in 1..Len(old) : old[i].id # c}
    IN  /\ Len(new) = Cardinality(kept)
        /\ \A i \in kept : new[Cardinality({j \in kept : j <= i})] = old[i]

\* The step made no call to databaseService.
NoPersistenceCall(evs) ==
    ~Has(evs, "deleteConversation") /\ ~Has(evs, "getConversations")

\* The step emitted neither event.
NoEvent(evs) == ~Has(evs, "onChatDelete") /\ ~Has(evs, "onChatSelect")

-----------------------------------------------------------------------------
(* C1: deleteConversation(chatId) is called only right after the user      *)
(* accepted the confirmation dialog of that click; when the user declines, *)
(* the step makes no persistence call, leaves the local list (and the      *)
(* calls in flight) as they were and emits neither onChatDelete nor        *)
(* onChatSelect.                                                           *)
C1_DeleteNeedsConfirmation ==
    [][ /\ \A i \in 1..Len(events') :
              events'[i].op = "deleteConversation"
                  => i > 1 /\ events'[i - 1] = Ev("confirm", Answer(TRUE))
        /\ HasEvent(events', Ev("confirm", Answer(FALSE)))
              => /\ NoPersistenceCall(events')
                 /\ NoEvent(events')
                 /\ chats' = chats
                 /\ deleting' = deleting /\ loads' = loads /\ db' = db
      ]_vars

C1_Witness ==
    /\ events = <<Ev("stopPropagation", NoArg), Ev("confirm", Answer(FALSE))>>
    /\ Len(chats) > 0

-----------------------------------------------------------------------------
(* C2: when deleteConversation rejects, the step shows exactly one alert,  *)
(* leaves the local list unchanged and emits neither onChatDelete nor      *)
(* onChatSelect.                                                           *)
C2_FailedDeleteOnlyAlerts ==
    [][ StartsWith(events', "deleteConversation.rejected")
            => /\ Count(events', "alert") = 1
               /\ chats' = chats
               /\ NoEvent(events')
      ]_vars

C2_Witness ==
    /\ StartsWith(events, "deleteConversation.rejected")
    /\ events[1].arg.id \in Ids(chats)

-----------------------------------------------------------------------------
-----------------------------------------------------------------------------
(* C4: handleNewChat calls onChatSelect exactly once, with a conversation  *)
(* named 'New Chat' that has no pdfIds and no messages and whose id is the *)
(* one uuidv4() just returned; it calls databaseService not at all and     *)
(* leaves the local list as it was.                                        *)
C4_NewChatOnlySelects ==
    [][ Has(events', "uuidv4")
            => /\ \E u \in Uuids :
                    events' =
                      <<Ev("uuidv4", IdArg(u)),
                        Ev("onChatSelect",
                           [id |-> u, name |-> "New Chat",
                            pdfIds |-> <<>>, messages |-> <<>>])>>
               /\ NoPersistenceCall(events')
               /\ chats' = chats
               /\ loads' = loads /\ deleting' = deleting /\ db' = db
      ]_vars

C4_Witness ==
    /\ StartsWith(events, "uuidv4")
    /\ Len(events) = 2 /\ events[2].op = "onChatSelect"
    /\ events[2].arg.id \notin Ids(chats)
    /\ Len(chats) > 0

-----------------------------------------------------------------------------
(* C8 as claimed: getConversations is requested once on mount and once     *)
(* each time refreshTrigger changes to a truthy value (not when it changes *)
(* to 0 or undefined); a load that resolves replaces the local list with   *)
(* the returned list; a load that rejects leaves the list unchanged, shows *)
(* no alert and emits no event.                                            *)
TruthyValue(v) == v \notin {Undefined, Number(0)}

LoadsRequested(evs) == Count(evs, "getConversations")

C8_RefreshRequests ==
    (mounted /\ mounted')
        => LoadsRequested(events') =
              IF refreshTrigger' # refreshTrigger /\ TruthyValue(refreshTrigger')
              THEN 1 ELSE 0

C8_LoadOutcome ==
    /\ StartsWith(events', "getConversations.resolved")
          => \E load \in BagToSet(loads) :
                /\ load.state = "read"
                /\ loads' = BagRemove(loads, load)
                /\ chats' = load.snapshot
    /\ StartsWith(events', "getConversations.rejected")
          => /\ chats' = chats
             /\ ~Has(events', "alert")
             /\ NoEvent(events')

-----------------------------------------------------------------------------
(* C9: once the delete of c has succeeded and c is gone from the local     *)
(* list, c is never in the local list again.  (The store loses c exactly   *)
(* when a delete of c succeeds.)                                           *)
C9_DeletedNeverReappears ==
    [][ \A c \in StoredIds :
            (c \notin Ids(db) /\ c \notin Ids(chats)) => c \notin Ids(chats')
      ]_vars

-----------------------------------------------------------------------------
(* C10: when the delete of c succeeds, onChatSelect(null) is called iff    *)
(* the chat selected at that moment has id c.                              *)
C10_ClearsIffSelectedNow ==
    [][ \A c \in StoredIds :
            (Len(events') > 0
             /\ events'[1] = Ev("deleteConversation.resolved", IdArg(c)))
                => (HasEvent(events', Ev("onChatSelect", Null))
                       <=> (selectedChat # Null /\ selectedChat.id = c))
      ]_vars

-----------------------------------------------------------------------------
(* What the claims about the render helpers speak of.                      *)

Returned(fn) == input.fn = fn /\ output # NoOutput

\* The first n characters of text; none when n <= 0.
FirstChars(text, n) == IF n <= 0 THEN "" ELSE SubSeq(text, 1, n)

\* text truncated to n, by the rule of C6.
TruncatedTo(text, n) ==
    IF Len(text) <= n THEN text ELSE FirstChars(text, n - 3) \o "..."

\* E: the documents chat links to that availablePDFs holds, in pdfIds order.
LinkedExisting(chat, availablePDFs) ==
    LET present == SelectSeq(chat.pdfIds,
                             LAMBDA id : \E i \in 1..Len(availablePDFs) :
                                            availablePDFs[i].id = id)
    IN  [i \in 1..Len(present) |->
            LET first == CHOOSE j \in 1..Len(availablePDFs) :
                            /\ availablePDFs[j].id = present[i]
                            /\ \A k \in 1..(j - 1) : availablePDFs[k].id # present[i]
            IN  availablePDFs[first]]

\* The title built from the documents `named` when `linked` documents exist.
TitleFrom(named, linked) ==
    IF Len(named) = 0 THEN "New Chat"
    ELSE IF Len(named) = 1 THEN TruncatedTo(named[1].name, 30)
    ELSE TruncatedTo(named[1].name, 15) \o " + " \o TruncatedTo(named[2].name, 15)
         \o (IF Len(linked) > 2 THEN " +" \o ToString(Len(linked) - 2) ELSE "")

-----------------------------------------------------------------------------
(* C5 as claimed: the title is chat.name truncated to 30 unless the name   *)
(* is 'New Chat'; then, with E the linked documents that exist, it is      *)
(* 'New Chat' when E is empty, the one name truncated to 30 when |E| = 1,  *)
(* and otherwise the first two names of E, each truncated to 15, joined by *)
(* ' + ' and followed by ' +N', N = |E| - 2, exactly when |E| > 2.         *)
C5_Original ==
    Returned("getChatDisplayName")
        => output =
              IF input.chat.name # "New Chat"
              THEN TruncatedTo(input.chat.name, 30)
              ELSE LET E == LinkedExisting(input.chat, input.availablePDFs)
                   IN  TitleFrom(E, E)

(* C5 as amended: the names are taken from the documents of E whose name   *)
(* is not empty (and their number chooses the case); N is still |E| - 2,   *)
(* shown exactly when |E| > 2.                                             *)
C5_Title ==
    Returned("getChatDisplayName")
        => output =
              IF input.chat.name # "New Chat"
              THEN TruncatedTo(input.chat.name, 30)
              ELSE LET E == LinkedExisting(input.chat, input.availablePDFs)
                       named == SelectSeq(E, LAMBDA doc : doc.name # "")
                   IN  TitleFrom(named, E)

\* Three linked documents exist, the first of them unnamed.
C5_Witness ==
    /\ Returned("getChatDisplayName")
    /\ input.chat.name = "New Chat"
    /\ LET E == LinkedExisting(input.chat, input.availablePDFs)
       IN  /\ Len(E) = 3
           /\ E[1].name = "" /\ E[2].name # "" /\ E[3].name # ""
           /\ Len(E[2].name) > 15
    /\ Len(input.chat.pdfIds) = 3

-----------------------------------------------------------------------------
(* C6: truncateText returns the text itself when it is no longer than      *)
(* maxLength and otherwise its first maxLength - 3 characters and '...',   *)
(* which for maxLength >= 3 is never longer than maxLength.  The preview   *)
(* is 'No messages yet' for a chat without messages and otherwise the      *)
(* content of the last message, truncated to 30.                           *)
C6_Truncation ==
    /\ Returned("truncateText")
          => /\ Len(input.text) <= input.maxLength => output = input.text
             /\ Len(input.text) > input.maxLength
                   => output = FirstChars(input.text, input.maxLength - 3) \o "..."
             /\ input.maxLength >= 3 => Len(output) <= input.maxLength
    /\ Returned("getLastMessage")
          => LET messages == input.chat.messages
             IN  /\ messages = <<>> => output = "No messages yet"
                 /\ messages # <<>>
                       => /\ output = TruncatedTo(messages[Len(messages)].content, 30)
                          /\ Len(output) <= 30

C6_Witness ==
    /\ Returned("getLastMessage")
    /\ Len(input.chat.messages) = 2
    /\ Len(input.chat.messages[2].content) > 30
    /\ Len(output) = 30

-----------------------------------------------------------------------------
(* C7: with d = now - date, formatTime returns 'Just now' for d < 60000,   *)
(* '<d / 60000>m ago' (1..59) below an hour, '<d / 3600000>h ago' (1..23)  *)
(* below a day, '<d / 86400000>d ago' (1..6) below a week, and the locale  *)
(* date string from a week on; every d falls into exactly one bucket.      *)
C7_Buckets ==
    Returned("formatTime")
        => LET d == input.now - input.date
               justNow == d < 60000
               minutes == 60000 <= d /\ d < 3600000
               hours == 3600000 <= d /\ d < 86400000
               days == 86400000 <= d /\ d < 604800000
               older == d >= 604800000
           IN  /\ Cardinality({b \in {<<1, justNow>>, <<2, minutes>>, <<3, hours>>,
                                       <<4, days>>, <<5, older>>} : b[2]}) = 1
               /\ justNow => output = "Just now"
               /\ minutes => /\ output = ToString(d \div 60000) \o "m ago"
                             /\ (d \div 60000) \in 1..59
               /\ hours => /\ output = ToString(d \div 3600000) \o "h ago"
                           /\ (d \div 3600000) \in 1..23
               /\ days => /\ output = ToString(d \div 86400000) \o "d ago"
                          /\ (d \div 86400000) \in 1..6
               /\ older => output = toLocaleDateString(input.date)

C7_Witness ==
    /\ Returned("formatTime")
    /\ input.now - input.date = 3600000
    /\ output = "1h ago"

====
